---- MODULE Spec2Model ----
(***************************************************************************)
(* License classification of dependency changes (licenses.ts) and the      *)
(* caller that turns the classification into a pass/fail result (main.ts). *)
(*                                                                         *)
(* One behaviour is one execution of run(): getInvalidLicenseChanges is    *)
(* called once on the input changes; groupChanges sorts the changes into   *)
(* licensed / unlicensed / ghChanges, setGHLicenses fans out one lookup    *)
(* per eligible change, the lookups complete in any order, and the policy  *)
(* loop fills the forbidden / unresolved / unlicensed buckets.             *)
(***************************************************************************)
EXTENDS Integers, Sequences, FiniteSets, TLC

(***************************************************************************)
(* Bounds and program constants                                            *)
(***************************************************************************)
\* longest input change list explored
MaxChanges == 3

\* truncatedDGLicense: license.length === 255
DGLicenseLimit == 255

\* parseGitHubURL: components.length < 3
MinComponents == 3

(***************************************************************************)
(* Strings                                                                 *)
(***************************************************************************)
\* JavaScript null (Change.license, Change.source_repository_url)
Null == "<null>"

RECURSIVE Repeat(_, _)
Repeat(s, n) == IF n = 0 THEN "" ELSE s \o Repeat(s, n - 1)

\* a 255-character expression cut in the middle of an identifier
TruncatedLicense == Repeat("MIT OR ", 36) \o "Apa"
\* a 255-character expression that happens to end on an identifier
LongValidLicense == Repeat("MIT OR ", 36) \o "MIT"
BadExpression == "not a valid expression!!"

DeclaredLicenses ==
  {"MIT", "GPL-3.0", "NOASSERTION", BadExpression, TruncatedLicense, LongValidLicense}

GitHubURL == "https://github.com/acme/widget"
GitLabURL == "https://gitlab.com/acme/widget"
OneSegmentURL == "https://github.com/acme"
TrailingSlashURL == "https://github.com/acme/"
MalformedURL == "not a url"
OtherRepoURL == "https://github.com/acme/gadget"

(***************************************************************************)
(* spdx-expression-parse / spdx-satisfies / isSPDXValid                    *)
(***************************************************************************)
Invalid == {{"<invalid>"}}

\* the parsed expression in disjunctive normal form, or Invalid when the
\* parser throws
Expand(s) ==
  CASE s = "MIT" -> {{"MIT"}}
    [] s = "GPL-3.0" -> {{"GPL-3.0"}}
    [] s = "Apache-2.0" -> {{"Apache-2.0"}}
    [] s = "MIT OR GPL-3.0" -> {{"MIT"}, {"GPL-3.0"}}
    [] s = LongValidLicense -> {{"MIT"}}
    [] OTHER -> Invalid

isSPDXValid(license) == Expand(license) # Invalid

\* "true", "false", or "throw" when either side does not parse
spdxSatisfies(first, second) ==
  IF Expand(first) = Invalid \/ Expand(second) = Invalid
    THEN "throw"
    ELSE IF \E o \in Expand(first) : \E t \in Expand(second) : o \subseteq t
           THEN "true"
           ELSE "false"

(***************************************************************************)
(* new URL(url) and String.prototype.split                                 *)
(***************************************************************************)
\* pathname is the sequence of its "/" separators and the runs between them
ParseURL(url) ==
  CASE url = GitHubURL ->
         [ok |-> TRUE, host |-> "github.com", pathname |-> <<"/", "acme", "/", "widget">>]
    [] url = OtherRepoURL ->
         [ok |-> TRUE, host |-> "github.com", pathname |-> <<"/", "acme", "/", "gadget">>]
    [] url = GitLabURL ->
         [ok |-> TRUE, host |-> "gitlab.com", pathname |-> <<"/", "acme", "/", "widget">>]
    [] url = OneSegmentURL ->
         [ok |-> TRUE, host |-> "github.com", pathname |-> <<"/", "acme">>]
    [] url = TrailingSlashURL ->
         [ok |-> TRUE, host |-> "github.com", pathname |-> <<"/", "acme", "/">>]
    [] OTHER -> [ok |-> FALSE, host |-> "", pathname |-> <<>>]

RECURSIVE SplitFrom(_, _, _)
SplitFrom(tokens, k, current) ==
  IF k > Len(tokens)
    THEN <<current>>
    ELSE IF tokens[k] = "/"
           THEN <<current>> \o SplitFrom(tokens, k + 1, "")
           ELSE SplitFrom(tokens, k + 1, current \o tokens[k])

Split(tokens) == SplitFrom(tokens, 1, "")

NoRepo == <<>>

\* <<owner, repo>>, or NoRepo for the null result
parseGitHubURL(url) ==
  LET parsed == ParseURL(url)
      components == Split(parsed.pathname)
  IN  IF ~parsed.ok
        THEN NoRepo
        ELSE IF parsed.host # "github.com"
               THEN NoRepo
               ELSE IF Len(components) < MinComponents
                      THEN NoRepo
                      ELSE <<components[2], components[3]>>

(***************************************************************************)
(* Inputs                                                                  *)
(***************************************************************************)
Change(type, license, url) ==
  [change_type |-> type, license |-> license, source_repository_url |-> url]

\* changes that exercise the policy loop
PolicyChanges ==
     {Change("added", l, Null) :
        l \in {"MIT", "GPL-3.0", "NOASSERTION", BadExpression}}
  \cup {Change("added", Null, Null), Change("added", Null, GitHubURL),
        Change("added", TruncatedLicense, GitHubURL),
        Change("removed", "NOASSERTION", Null)}

\* changes that exercise grouping and remote resolution
ResolveChanges ==
     {Change("added", Null, u) :
        u \in {Null, GitHubURL, OtherRepoURL, GitLabURL, OneSegmentURL,
               TrailingSlashURL, MalformedURL}}
  \cup {Change("added", l, GitHubURL) : l \in {TruncatedLicense, LongValidLicense}}
  \cup {Change("added", "MIT", Null), Change("removed", Null, GitHubURL)}

ChangeLists(universe) == UNION {[1..n -> universe] : n \in 0..MaxChanges}

\* the {allow?, deny?} argument: an absent key is an undefined list
Policies ==
  { [x \in {} |-> <<>>],
    [allow |-> <<"MIT">>],
    [deny |-> <<"GPL-3.0">>],
    [allow |-> <<"MIT">>, deny |-> <<"MIT">>],
    [allow |-> <<BadExpression>>],
    [allow |-> <<"MIT", BadExpression>>],
    [deny |-> <<"MIT OR GPL-3.0", BadExpression>>],
    [allow |-> <<>>] }

\* what licenses.getForRepo answers for a repository
RequestError == "<request error>"
NoLicense == "<no license>"
Answers == {"Apache-2.0", "NOASSERTION", NoLicense, RequestError}
Widget == <<"acme", "widget">>
Gadget == <<"acme", "gadget">>
Unnamed == <<"acme", "">>
Repos == {Widget, Gadget, Unnamed}
\* there is no repository with an empty name
Remotes(widgetAnswers, gadgetAnswers) ==
  {r \in [Repos -> Answers \cup {"MIT"}] :
     /\ r[Widget] \in widgetAnswers
     /\ r[Gadget] \in gadgetAnswers
     /\ r[Unnamed] = RequestError}

AllLicenses == DeclaredLicenses \cup {"Apache-2.0"}

VARIABLES
  changes,        \* the changes argument
  licenses,       \* the {allow, deny} argument
  remote,         \* the license each repository has on the server
  license_check,  \* config.license_check
  pc,             \* where run() is
  i,              \* groupChanges: position of the first loop
  licensed,       \* groupChanges: result.licensed, then licensedChanges
  unlicensed,     \* result.unlicensed, then invalidLicenseChanges.unlicensed
  ghChanges,      \* groupChanges: ghChanges
  updated,        \* setGHLicenses: updatedChanges, one promise per ghChange
  inflight,       \* positions of ghChanges whose lookup has not answered
  lookups,        \* the getForRepo requests sent so far
  j,              \* getInvalidLicenseChanges: position of the policy loop
  unresolved,     \* invalidLicenseChanges.unresolved
  forbidden,      \* invalidLicenseChanges.forbidden
  validityCache,  \* validityCache
  satCalls,       \* calls of spdxSatisfies so far, per license string
  passes,         \* completed allow.find / deny.find passes, per license string
  failed          \* the messages given to core.setFailed

vars ==
  <<changes, licenses, remote, license_check, pc, i, licensed, unlicensed,
    ghChanges, updated, inflight, lookups, j, unresolved, forbidden,
    validityCache, satCalls, passes, failed>>

inputs == <<changes, licenses, remote, license_check>>

EmptyCache == [x \in {} |-> TRUE]

\* the change object at position k of the input
Ref(k) ==
  [idx |-> k,
   change_type |-> changes[k].change_type,
   license |-> changes[k].license,
   source_repository_url |-> changes[k].source_repository_url]

\* the state when run() calls getInvalidLicenseChanges
Start ==
  /\ pc = "groupChanges"
  /\ i = 1
  /\ licensed = <<>>
  /\ unlicensed = <<>>
  /\ ghChanges = <<>>
  /\ updated = <<>>
  /\ inflight = {}
  /\ lookups = {}
  /\ j = 1
  /\ unresolved = <<>>
  /\ forbidden = <<>>
  /\ validityCache = EmptyCache
  /\ satCalls = [l \in AllLicenses |-> 0]
  /\ passes = [l \in AllLicenses |-> 0]
  /\ failed = {}

\* every policy, over changes that reach the policy loop
Init ==
  /\ changes \in ChangeLists(PolicyChanges)
  /\ licenses \in Policies
  /\ remote \in Remotes({"Apache-2.0", "NOASSERTION", NoLicense}, {RequestError})
  /\ license_check \in BOOLEAN
  /\ Start

\* every kind of source URL and lookup answer, under one policy
InitResolve ==
  /\ changes \in ChangeLists(ResolveChanges)
  /\ licenses = [allow |-> <<"MIT">>]
  /\ remote \in Remotes(Answers, {"MIT", RequestError})
  /\ license_check \in BOOLEAN
  /\ Start

(***************************************************************************)
(* groupChanges, first loop                                                *)
(***************************************************************************)
truncatedDGLicense(license) ==
  Len(license) = DGLicenseLimit /\ ~isSPDXValid(license)

\* IsRemoved with the filter left out
IsRemovedNever(change) == FALSE

IsRemoved(change) == change.change_type = "removed"

\* one iteration of the loop over changes; g = [licensed, unlicensed, ghChanges]
GroupOne(g, change) ==
  IF IsRemoved(change)
    THEN g
    ELSE IF change.license = Null
           THEN IF change.source_repository_url # Null
                  THEN [g EXCEPT !.ghChanges = Append(@, change)]
                  ELSE [g EXCEPT !.unlicensed = Append(@, change)]
           ELSE IF truncatedDGLicense(change.license)
                     /\ change.source_repository_url # Null
                  THEN [g EXCEPT !.ghChanges = Append(@, change)]
                  ELSE [g EXCEPT !.licensed = Append(@, change)]

GroupStep ==
  /\ pc = "groupChanges"
  /\ i <= Len(changes)
  /\ LET g == GroupOne([licensed |-> licensed, unlicensed |-> unlicensed,
                        ghChanges |-> ghChanges], Ref(i))
     IN  /\ licensed' = g.licensed
         /\ unlicensed' = g.unlicensed
         /\ ghChanges' = g.ghChanges
  /\ i' = i + 1
  /\ UNCHANGED <<inputs, pc, updated, inflight, lookups, j, unresolved,
                 forbidden, validityCache, satCalls, passes, failed>>

\* ghChanges.length > 0 is false: groupChanges returns
GroupReturn ==
  /\ pc = "groupChanges"
  /\ i > Len(changes)
  /\ Len(ghChanges) = 0
  /\ pc' = "evaluate"
  /\ UNCHANGED <<inputs, i, licensed, unlicensed, ghChanges, updated, inflight,
                 lookups, j, unresolved, forbidden, validityCache, satCalls,
                 passes, failed>>

(***************************************************************************)
(* setGHLicenses, fetchGHLicense and the second loop of groupChanges       *)
(***************************************************************************)
\* the callback of changes.map gets past both early returns
NeedsLookup(change) ==
  /\ ~(change.license # Null \/ change.source_repository_url = Null)
  /\ parseGitHubURL(change.source_repository_url) # NoRepo

\* the value fetchGHLicense resolves to; a request error is caught
fetchGHLicense(repo) ==
  IF remote[repo] = RequestError
    THEN Null
    ELSE IF remote[repo] = NoLicense THEN Null ELSE remote[repo]

\* groupChanges calls setGHLicenses: every callback runs to its first await
CallSetGHLicenses ==
  /\ pc = "groupChanges"
  /\ i > Len(changes)
  /\ Len(ghChanges) > 0
  /\ updated' = [k \in 1..Len(ghChanges) |->
                   [settled |-> ~NeedsLookup(ghChanges[k]), change |-> ghChanges[k]]]
  /\ inflight' = {k \in 1..Len(ghChanges) : NeedsLookup(ghChanges[k])}
  /\ lookups' = {[idx |-> ghChanges[k].idx,
                  repo |-> parseGitHubURL(ghChanges[k].source_repository_url)] :
                   k \in {n \in 1..Len(ghChanges) : NeedsLookup(ghChanges[n])}}
  /\ pc' = "awaitAll"
  /\ UNCHANGED <<inputs, i, licensed, unlicensed, ghChanges, j, unresolved,
                 forbidden, validityCache, satCalls, passes, failed>>

\* Settle with the results collected in the order the lookups answer
SettleInCompletionOrder(promises, k, change) ==
  LET first == CHOOSE m \in 1..Len(promises) :
                 /\ ~promises[m].settled
                 /\ \A n \in 1..(m - 1) : promises[n].settled
  IN  [promises EXCEPT ![first] = [settled |-> TRUE, change |-> change]]

\* promise k of updatedChanges resolves to `change`
Settle(promises, k, change) ==
  [promises EXCEPT ![k] = [settled |-> TRUE, change |-> change]]

\* the lookup of ghChanges[k] answers (or fails); its callback returns
\* {...change, license}
LookupAnswer(k) ==
  /\ k \in inflight
  /\ updated' = Settle(updated, k,
                  [ghChanges[k] EXCEPT !.license =
                     fetchGHLicense(parseGitHubURL(ghChanges[k].source_repository_url))])
  /\ inflight' = inflight \ {k}
  /\ UNCHANGED <<inputs, pc, i, licensed, unlicensed, ghChanges, lookups, j,
                 unresolved, forbidden, validityCache, satCalls, passes, failed>>

\* AllSettled with the join taken at the first answer (a race, not an all)
AnySettled(promises) == \E k \in 1..Len(promises) : promises[k].settled

\* Promise.all(updatedChanges) resolves
AllSettled(promises) == \A k \in 1..Len(promises) : promises[k].settled

\* for (const change of ghLicenses), from position k
RECURSIVE Regroup(_, _, _)
Regroup(g, ghLicenses, k) ==
  IF k > Len(ghLicenses)
    THEN g
    ELSE IF ghLicenses[k].change.license = Null
           THEN Regroup([g EXCEPT !.unlicensed = Append(@, ghLicenses[k].change)],
                        ghLicenses, k + 1)
           ELSE Regroup([g EXCEPT !.licensed = Append(@, ghLicenses[k].change)],
                        ghLicenses, k + 1)

JoinAll ==
  /\ pc = "awaitAll"
  /\ AllSettled(updated)
  /\ LET g == Regroup([licensed |-> licensed, unlicensed |-> unlicensed],
                      updated, 1)
     IN  /\ licensed' = g.licensed
         /\ unlicensed' = g.unlicensed
  /\ pc' = "evaluate"
  /\ UNCHANGED <<inputs, i, ghChanges, updated, inflight, lookups, j, unresolved,
                 forbidden, validityCache, satCalls, passes, failed>>

(***************************************************************************)
(* getInvalidLicenseChanges, the policy loop                               *)
(***************************************************************************)
\* list.find(spdxExpression => spdxSatisfies(license, spdxExpression)) from
\* position k: "found", "none" or "throw", and the calls it made
RECURSIVE Find(_, _, _)
Find(license, list, k) ==
  IF k > Len(list)
    THEN [result |-> "none", calls |-> k - 1]
    ELSE LET r == spdxSatisfies(license, list[k])
         IN  IF r = "throw"
               THEN [result |-> "throw", calls |-> k]
               ELSE IF r = "true"
                      THEN [result |-> "found", calls |-> k]
                      ELSE Find(license, list, k + 1)

\* TryPolicy with the deny list consulted before the allow list
TryPolicyDenyFirst(license, policy) ==
  IF "deny" \in DOMAIN policy
    THEN LET f == Find(license, policy.deny, 1)
         IN  IF f.result = "throw"
               THEN [kind |-> "throw", value |-> FALSE, calls |-> f.calls, passes |-> 0]
               ELSE [kind |-> "set", value |-> (f.result = "none"),
                     calls |-> f.calls, passes |-> 1]
    ELSE IF "allow" \in DOMAIN policy
           THEN LET f == Find(license, policy.allow, 1)
                IN  IF f.result = "throw"
                      THEN [kind |-> "throw", value |-> FALSE, calls |-> f.calls,
                            passes |-> 0]
                      ELSE [kind |-> "set", value |-> (f.result = "found"),
                            calls |-> f.calls, passes |-> 1]
           ELSE [kind |-> "skip", value |-> FALSE, calls |-> 0, passes |-> 0]

\* the body of the try block: what it does to the cache
\*   kind "set": validityCache.set(license, value); "throw"; "skip": neither list
TryPolicy(license, policy) ==
  IF "allow" \in DOMAIN policy
    THEN LET f == Find(license, policy.allow, 1)
         IN  IF f.result = "throw"
               THEN [kind |-> "throw", value |-> FALSE, calls |-> f.calls, passes |-> 0]
               ELSE [kind |-> "set", value |-> (f.result = "found"),
                     calls |-> f.calls, passes |-> 1]
    ELSE IF "deny" \in DOMAIN policy
           THEN LET f == Find(license, policy.deny, 1)
                IN  IF f.result = "throw"
                      THEN [kind |-> "throw", value |-> FALSE, calls |-> f.calls,
                            passes |-> 0]
                      ELSE [kind |-> "set", value |-> (f.result = "none"),
                            calls |-> f.calls, passes |-> 1]
           ELSE [kind |-> "skip", value |-> FALSE, calls |-> 0, passes |-> 0]

\* IsNoAssertion with the special case left out
IsNoAssertionNever(license) == FALSE

IsNoAssertion(license) == license = "NOASSERTION"

\* CacheMiss with the cache never consulted
CacheMissAlways(cache, license) == TRUE

\* validityCache.get(license) === undefined
CacheMiss(cache, license) == license \notin DOMAIN cache

\* validityCache.get(license) === false
CachedFalse(cache, license) == license \in DOMAIN cache /\ cache[license] = FALSE

CacheSet(cache, license, value) ==
  [l \in DOMAIN cache \cup {license} |-> IF l = license THEN value ELSE cache[l]]

\* OnThrow with the failure cached as "does not satisfy"
OnThrowCacheFalse(acc, change) ==
  [acc EXCEPT !.unresolved = Append(@, change),
              !.cache = CacheSet(@, change.license, FALSE)]

\* the catch block
OnThrow(acc, change) == [acc EXCEPT !.unresolved = Append(@, change)]

\* one iteration of the loop over licensedChanges;
\* acc = [unlicensed, unresolved, forbidden, cache, satCalls, passes]
EvalOne(acc, change, policy) ==
  LET license == change.license
      t == TryPolicy(license, policy)
      a1 == IF IsNoAssertion(license)
              THEN [acc EXCEPT !.unlicensed = Append(@, change)]
              ELSE IF CacheMiss(acc.cache, license)
                     THEN LET counted == [acc EXCEPT
                                            !.satCalls[license] = @ + t.calls,
                                            !.passes[license] = @ + t.passes]
                          IN  IF t.kind = "set"
                                THEN [counted EXCEPT
                                        !.cache = CacheSet(@, license, t.value)]
                                ELSE IF t.kind = "throw"
                                       THEN OnThrow(counted, change)
                                       ELSE counted
                     ELSE acc
  IN  IF license = Null
        THEN acc
        ELSE IF CachedFalse(a1.cache, license)
               THEN [a1 EXCEPT !.forbidden = Append(@, change)]
               ELSE a1

EvalStep ==
  /\ pc = "evaluate"
  /\ j <= Len(licensed)
  /\ LET a == EvalOne([unlicensed |-> unlicensed, unresolved |-> unresolved,
                       forbidden |-> forbidden, cache |-> validityCache,
                       satCalls |-> satCalls, passes |-> passes],
                      licensed[j], licenses)
     IN  /\ unlicensed' = a.unlicensed
         /\ unresolved' = a.unresolved
         /\ forbidden' = a.forbidden
         /\ validityCache' = a.cache
         /\ satCalls' = a.satCalls
         /\ passes' = a.passes
  /\ j' = j + 1
  /\ UNCHANGED <<inputs, pc, i, licensed, ghChanges, updated, inflight, lookups,
                 failed>>

\* return invalidLicenseChanges
Return ==
  /\ pc = "evaluate"
  /\ j > Len(licensed)
  /\ pc' = "returned"
  /\ UNCHANGED <<inputs, i, licensed, unlicensed, ghChanges, updated, inflight,
                 lookups, j, unresolved, forbidden, validityCache, satCalls,
                 passes, failed>>

(***************************************************************************)
(* run and printLicensesBlock                                              *)
(***************************************************************************)
IncompatibleMessage == "Dependency review detected incompatible licenses."
UndeterminedMessage == "Dependency review could not detect the validity of all licenses."

\* LicenseFailures with a missing license failing the run as well
LicenseFailuresUnlicensedToo(invalid) ==
  (IF Len(invalid.forbidden) > 0 THEN {IncompatibleMessage} ELSE {})
    \cup (IF Len(invalid.unresolved) > 0 \/ Len(invalid.unlicensed) > 0
            THEN {UndeterminedMessage}
            ELSE {})

\* the messages printLicensesBlock gives to core.setFailed
LicenseFailures(invalid) ==
  (IF Len(invalid.forbidden) > 0 THEN {IncompatibleMessage} ELSE {})
    \cup (IF Len(invalid.unresolved) > 0 THEN {UndeterminedMessage} ELSE {})

\* if (config.license_check) printLicensesBlock(invalidLicenseChanges)
PrintLicensesBlock ==
  /\ pc = "returned"
  /\ license_check
  /\ failed' = failed \cup LicenseFailures([forbidden |-> forbidden,
                                            unresolved |-> unresolved,
                                            unlicensed |-> unlicensed])
  /\ pc' = "finished"
  /\ UNCHANGED <<inputs, i, licensed, unlicensed, ghChanges, updated, inflight,
                 lookups, j, unresolved, forbidden, validityCache, satCalls,
                 passes>>

\* config.license_check is false: the block is skipped
SkipLicensesBlock ==
  /\ pc = "returned"
  /\ ~license_check
  /\ pc' = "finished"
  /\ UNCHANGED <<inputs, i, licensed, unlicensed, ghChanges, updated, inflight,
                 lookups, j, unresolved, forbidden, validityCache, satCalls,
                 passes, failed>>

Next ==
  \/ GroupStep
  \/ GroupReturn
  \/ CallSetGHLicenses
  \/ \E k \in 1..MaxChanges : LookupAnswer(k)
  \/ JoinAll
  \/ EvalStep
  \/ Return
  \/ PrintLicensesBlock
  \/ SkipLicensesBlock

Spec == Init /\ [][Next]_vars

SpecResolve == InitResolve /\ [][Next]_vars

(***************************************************************************)
(* Vocabulary of the properties                                            *)
(***************************************************************************)
Positions == 1..Len(changes)

\* getInvalidLicenseChanges has returned
Returned == pc \in {"returned", "finished"}

\* groupChanges has returned
Grouped == pc \in {"evaluate", "returned", "finished"}

\* the entries of a bucket that stem from the input change at position k
Entries(bucket, k) == {n \in 1..Len(bucket) : bucket[n].idx = k}

InBucket(bucket, k) == Entries(bucket, k) # {}

\* the owner/repository segments of the URL's path
PathSegments(url) ==
  {n \in 1..Len(ParseURL(url).pathname) : ParseURL(url).pathname[n] # "/"}

\* the URL names a repository on the canonical host
NamesGitHubRepo(url) ==
  /\ ParseURL(url).ok
  /\ ParseURL(url).host = "github.com"
  /\ Cardinality(PathSegments(url)) >= 2

\* the source's truncation condition, for the input change at position k
IsTruncated(k) ==
  /\ changes[k].license # Null
  /\ Len(changes[k].license) = 255
  /\ Expand(changes[k].license) = Invalid

C7_LookupOnlyForOwnerAndRepo ==
  \A k \in Positions :
    (/\ changes[k].change_type # "removed"
     /\ changes[k].license = Null
     /\ changes[k].source_repository_url # Null)
    => /\ (\E r \in lookups : r.idx = k)
            => NamesGitHubRepo(changes[k].source_repository_url)
       /\ (Grouped /\ ~NamesGitHubRepo(changes[k].source_repository_url))
            => /\ ~\E r \in lookups : r.idx = k
               /\ InBucket(unlicensed, k)

(***************************************************************************)
(* C2                                                                      *)
(***************************************************************************)
AllowConfigured == "allow" \in DOMAIN licenses
DenyConfigured == "deny" \in DOMAIN licenses

\* the checks made on `list`, in order and up to the first match, all complete
ChecksComplete(license, list) ==
  \A k \in 1..Len(list) :
    (\A m \in 1..(k - 1) : spdxSatisfies(license, list[m]) = "false")
      => spdxSatisfies(license, list[k]) # "throw"

SatisfiesSome(license, list) ==
  \E k \in 1..Len(list) : spdxSatisfies(license, list[k]) = "true"

ShouldBeForbidden(license) ==
  \/ /\ AllowConfigured
     /\ ChecksComplete(license, licenses.allow)
     /\ ~SatisfiesSome(license, licenses.allow)
  \/ /\ ~AllowConfigured
     /\ DenyConfigured
     /\ ChecksComplete(license, licenses.deny)
     /\ SatisfiesSome(license, licenses.deny)

\* C2: once classification has returned, a change that reached the policy loop
\* with a license other than NOASSERTION is in `forbidden` exactly when the
\* checks completed without throwing and either allow is configured and no
\* allow entry is satisfied, or allow is absent, deny is configured and some
\* deny entry is satisfied. With neither list nothing is forbidden or
\* unresolved and the cache stays empty.
C2_ForbiddenIffPolicyViolated ==
  /\ Returned =>
       \A n \in 1..Len(licensed) :
         (licensed[n].license # Null /\ licensed[n].license # "NOASSERTION")
           => (InBucket(forbidden, licensed[n].idx)
                 <=> ShouldBeForbidden(licensed[n].license))
  /\ (~AllowConfigured /\ ~DenyConfigured)
       => forbidden = <<>> /\ unresolved = <<>> /\ validityCache = EmptyCache

\* allow = [MIT] and deny = [MIT]: the MIT change is accepted, the GPL-3.0
\* change is forbidden
C2_Witness ==
  /\ pc = "returned"
  /\ licenses = [allow |-> <<"MIT">>, deny |-> <<"MIT">>]
  /\ Len(licensed) = 2
  /\ licensed[1].license = "MIT"
  /\ licensed[2].license = "GPL-3.0"
  /\ ~InBucket(forbidden, licensed[1].idx)
  /\ ~InBucket(unresolved, licensed[1].idx)
  /\ ~InBucket(unlicensed, licensed[1].idx)
  /\ InBucket(forbidden, licensed[2].idx)

(***************************************************************************)
(* C3                                                                      *)
(***************************************************************************)
\* the change at position k has license NOASSERTION, declared or looked up
HasNoAssertion(k) ==
  \/ changes[k].license = "NOASSERTION"
  \/ \E n \in 1..Len(updated) :
       /\ updated[n].settled
       /\ updated[n].change.idx = k
       /\ updated[n].change.license = "NOASSERTION"

NoAssertionHandled(k) ==
  /\ Returned => InBucket(unlicensed, k)
  /\ ~InBucket(forbidden, k)
  /\ ~InBucket(unresolved, k)

\* C3 as stated: every change whose license is NOASSERTION, declared or looked
\* up, is in `unlicensed` once classification has returned, never in
\* `forbidden` or `unresolved`, and NOASSERTION is never a key of the cache.
C3_NoAssertionUnlicensed ==
  /\ \A k \in Positions : HasNoAssertion(k) => NoAssertionHandled(k)
  /\ "NOASSERTION" \notin DOMAIN validityCache

\* C3 amended: the same, for every change that is not removed.
C3_NoAssertionUnlicensedUnlessRemoved ==
  /\ \A k \in Positions :
       (HasNoAssertion(k) /\ changes[k].change_type # "removed")
         => NoAssertionHandled(k)
  /\ "NOASSERTION" \notin DOMAIN validityCache

\* a declared and a looked-up NOASSERTION under a policy, both unlicensed
C3_Witness ==
  /\ pc = "returned"
  /\ AllowConfigured
  /\ Len(changes) = 2
  /\ changes[1].license = "NOASSERTION"
  /\ changes[1].change_type = "added"
  /\ changes[2].license = Null
  /\ HasNoAssertion(2)
  /\ InBucket(unlicensed, 1)
  /\ InBucket(unlicensed, 2)

(***************************************************************************)
(* C4                                                                      *)
(***************************************************************************)
ActiveList ==
  IF AllowConfigured
    THEN licenses.allow
    ELSE IF DenyConfigured THEN licenses.deny ELSE <<>>

\* the policy check of this license string throws
CheckThrows(license) == ~ChecksComplete(license, ActiveList)

\* the position in the active list at which the check throws
ThrowsAt(license) ==
  CHOOSE k \in 1..Len(ActiveList) :
    /\ spdxSatisfies(license, ActiveList[k]) = "throw"
    /\ \A m \in 1..(k - 1) : spdxSatisfies(license, ActiveList[m]) = "false"

\* the changes of licensedChanges the policy loop has been through
Evaluated ==
  IF pc = "evaluate"
    THEN 1..(j - 1)
    ELSE IF Returned THEN 1..Len(licensed) ELSE {}

\* C4: when the satisfaction check throws for a license string, the loop goes
\* on, the change is in `unresolved` (once) and not in `forbidden`, the cache
\* holds nothing for that string, and every change with the same string is
\* checked again: each of them costs the calls up to the throwing one.
C4_ThrowMeansUnresolved ==
  \A n \in Evaluated :
    LET license == licensed[n].license
    IN  (license # "NOASSERTION" /\ CheckThrows(license))
          => /\ Cardinality(Entries(unresolved, licensed[n].idx)) = 1
             /\ ~InBucket(forbidden, licensed[n].idx)
             /\ license \notin DOMAIN validityCache
             /\ satCalls[license] =
                  ThrowsAt(license)
                    * Cardinality({m \in Evaluated : licensed[m].license = license})

\* two changes with the same malformed license, both unresolved
C4_Witness ==
  /\ pc = "returned"
  /\ Len(licensed) = 2
  /\ licensed[1].license = BadExpression
  /\ licensed[2].license = BadExpression
  /\ CheckThrows(BadExpression)
  /\ Len(unresolved) = 2
  /\ satCalls[BadExpression] = 2

(***************************************************************************)
(* C5                                                                      *)
(***************************************************************************)
\* C5: in one run the allow/deny matching pass of a license string completes
\* at most once; once the string is cached no change adds a call of the
\* satisfaction predicate for it; and the cache is empty until the policy
\* loop starts.
C5_OnePassPerLicense ==
  /\ \A l \in AllLicenses :
       /\ passes[l] <= 1
       /\ l \in DOMAIN validityCache
            => passes[l] = 1 /\ satCalls[l] <= Len(ActiveList)
  /\ (pc \in {"groupChanges", "awaitAll"} \/ (pc = "evaluate" /\ j = 1))
       => validityCache = EmptyCache /\ \A l \in AllLicenses : satCalls[l] = 0

\* two changes share a license string: one pass, one call
C5_Witness ==
  /\ pc = "returned"
  /\ licenses = [allow |-> <<"MIT">>]
  /\ Len(licensed) = 2
  /\ licensed[1].license = "GPL-3.0"
  /\ licensed[2].license = "GPL-3.0"
  /\ passes["GPL-3.0"] = 1
  /\ satCalls["GPL-3.0"] = 1
  /\ Len(forbidden) = 2

(***************************************************************************)
(* C6                                                                      *)
(***************************************************************************)
BucketEntries(k) ==
  Cardinality(Entries(forbidden, k)) + Cardinality(Entries(unresolved, k))
    + Cardinality(Entries(unlicensed, k))

\* C6: every input change has at most one entry in forbidden, unresolved and
\* unlicensed taken together, and a removed change has none.
C6_AtMostOneBucket ==
  \A k \in Positions :
    /\ BucketEntries(k) <= 1
    /\ changes[k].change_type = "removed" => BucketEntries(k) = 0

\* a removed change next to a change that is reported
C6_Witness ==
  /\ pc = "returned"
  /\ Len(changes) = 2
  /\ changes[1].change_type = "removed"
  /\ changes[1].license = "NOASSERTION"
  /\ BucketEntries(1) = 0
  /\ BucketEntries(2) = 1
  /\ InBucket(unresolved, 2)

(***************************************************************************)
(* C8                                                                      *)
(***************************************************************************)
\* C8: groupChanges goes on only after every lookup has answered or failed,
\* and a failure leaves no promise unsettled; a candidate whose lookup failed
\* or found no license is in `unlicensed`, a candidate whose lookup found a
\* license is in `licensed` with that license, and that license is then put
\* to the policy.
C8_BatchWaitsAndDegrades ==
  /\ Grouped => inflight = {}
  /\ (pc = "awaitAll" /\ inflight = {})
       => \A n \in 1..Len(updated) : updated[n].settled
  /\ Grouped =>
       \A r \in lookups :
         IF remote[r.repo] \in {RequestError, NoLicense}
           THEN InBucket(unlicensed, r.idx) /\ ~InBucket(licensed, r.idx)
           ELSE /\ \E n \in Entries(licensed, r.idx) :
                     licensed[n].license = remote[r.repo]
                /\ (Returned /\ remote[r.repo] # "NOASSERTION")
                     => /\ remote[r.repo] \in DOMAIN validityCache
                        /\ InBucket(forbidden, r.idx)
                             <=> ShouldBeForbidden(remote[r.repo])

\* two lookups, one fails and one finds Apache-2.0, which allow = [MIT] forbids
C8_Witness ==
  /\ pc = "returned"
  /\ \E r1, r2 \in lookups :
       /\ remote[r1.repo] = RequestError
       /\ remote[r2.repo] = "Apache-2.0"
       /\ InBucket(unlicensed, r1.idx)
       /\ InBucket(forbidden, r2.idx)
       /\ \E n \in Entries(forbidden, r2.idx) : forbidden[n].license = "Apache-2.0"

(***************************************************************************)
(* C9                                                                      *)
(***************************************************************************)
\* the classification computed with every lookup answered on the spot
RECURSIVE GroupAll(_, _)
GroupAll(g, k) ==
  IF k > Len(changes) THEN g ELSE GroupAll(GroupOne(g, Ref(k)), k + 1)

ResolvedInOrder(candidates) ==
  [k \in 1..Len(candidates) |->
     [settled |-> TRUE,
      change |->
        IF NeedsLookup(candidates[k])
          THEN [candidates[k] EXCEPT !.license =
                  fetchGHLicense(parseGitHubURL(candidates[k].source_repository_url))]
          ELSE candidates[k]]]

RECURSIVE EvalAll(_, _, _)
EvalAll(acc, list, k) ==
  IF k > Len(list) THEN acc ELSE EvalAll(EvalOne(acc, list[k], licenses), list, k + 1)

SequentialResult ==
  LET g0 == GroupAll([licensed |-> <<>>, unlicensed |-> <<>>, ghChanges |-> <<>>], 1)
      g1 == IF Len(g0.ghChanges) > 0
              THEN Regroup([licensed |-> g0.licensed, unlicensed |-> g0.unlicensed],
                           ResolvedInOrder(g0.ghChanges), 1)
              ELSE [licensed |-> g0.licensed, unlicensed |-> g0.unlicensed]
      acc == EvalAll([unlicensed |-> g1.unlicensed, unresolved |-> <<>>,
                      forbidden |-> <<>>, cache |-> EmptyCache,
                      satCalls |-> [l \in AllLicenses |-> 0],
                      passes |-> [l \in AllLicenses |-> 0]],
                     g1.licensed, 1)
  IN  [forbidden |-> acc.forbidden, unresolved |-> acc.unresolved,
       unlicensed |-> acc.unlicensed]

\* the record a change object holds, its license apart
SameButLicense(change) ==
  [change EXCEPT !.license = changes[change.idx].license] = Ref(change.idx)

\* C9: the buckets returned are a function of (changes, policy, answers): in
\* whatever order the lookups answer they equal the classification computed
\* with each lookup answered on the spot. A lookup writes its own promise
\* only, and the input change objects keep their fields: a resolved license
\* sits on a copy.
C9_ScheduleIndependent ==
  /\ Returned =>
       [forbidden |-> forbidden, unresolved |-> unresolved,
        unlicensed |-> unlicensed] = SequentialResult
  /\ \A n \in 1..Len(ghChanges) : ghChanges[n] = Ref(ghChanges[n].idx)
  /\ \A n \in 1..Len(updated) :
       /\ updated[n].change.idx = ghChanges[n].idx
       /\ SameButLicense(updated[n].change)
       /\ ~updated[n].settled => updated[n].change = ghChanges[n]

\* two lookups were in flight and both licenses reached the buckets' input
C9_Witness ==
  /\ pc = "returned"
  /\ Len(ghChanges) = 2
  /\ Cardinality(lookups) = 2
  /\ updated[1].change.license = "Apache-2.0"
  /\ updated[2].change.license = "MIT"
  /\ Len(forbidden) = 1

(***************************************************************************)
(* C10                                                                     *)
(***************************************************************************)
\* C10: when run() is through the license block, it has been marked failed
\* exactly when the license check is enabled and `forbidden` or `unresolved`
\* is non-empty; `unlicensed` alone never marks it failed, nor does any bucket
\* when the check is disabled.
C10_FailedIffForbiddenOrUnresolved ==
  /\ pc = "finished" =>
       (failed # {} <=>
          (license_check /\ (Len(forbidden) > 0 \/ Len(unresolved) > 0)))
  /\ pc # "finished" => failed = {}
  /\ failed \subseteq {IncompatibleMessage, UndeterminedMessage}

\* only `unlicensed` is non-empty, the check is enabled, the run is not failed
C10_Witness ==
  /\ pc = "finished"
  /\ license_check
  /\ Len(unlicensed) > 0
  /\ Len(forbidden) = 0
  /\ Len(unresolved) = 0
  /\ failed = {}

====
